---- MODULE Spec2Model ----
(***************************************************************************)
(* Model of src/docs/heston.c: Monte Carlo pricing of a European call      *)
(* under the Heston model, with the two-phase simulation driver, the       *)
(* percentile selection, the LCG / Box-Muller random source and the heap   *)
(* of path buffers.                                                        *)
(*                                                                         *)
(* Numbers of type double are fixed-point integers with FP units per 1.0   *)
(* (100.0 is 100 * FP); the one non-finite result the driver can produce,  *)
(* 0.0 / 0, is the value NaN.  log, sin, cos, exp and sqrt are computed    *)
(* in that fixed-point arithmetic.                                         *)
(***************************************************************************)
EXTENDS Integers, Sequences, FiniteSets

VARIABLES
    PERCENTILE_TRACKING_LIMIT, \* #define, fixed for a build (source: 1000)
    MAX_PERCENTILE_PATHS,      \* #define, fixed for a build (source: 1000)
    qsort_order,               \* how the build's qsort orders equal elements
    sim_state,                 \* static SimulationState sim_state
    rand_seed,                 \* static unsigned long rand_seed
    has_spare,                 \* static int has_spare of normal_random
    spare,                     \* static double spare of normal_random
    heap,                      \* live malloc'ed path buffers: address -> contents
    released,                  \* history: addresses passed to free() by the last initialize_simulation
    bad_free,                  \* history: free() was called on an address that was not live
    first_normal,              \* history: how the first normal_random() after the last reseed was produced
    tracked,                   \* history: tracking-branch iterations since the last initialize_simulation
    entries,                   \* history: the entries written to the slots of all_paths since the last initialize_simulation, in the order written
    transitions,               \* history: times the tracking phase was left (sort, indices) since the last initialize_simulation
    terminals,                 \* history: terminal price of every simulation since the last initialize_simulation
    var_uses,                  \* history: the variance each term read, per step of the last simulated path
    work                       \* history: simulations run so far, over all runs

vars == <<PERCENTILE_TRACKING_LIMIT, MAX_PERCENTILE_PATHS, qsort_order, sim_state,
          rand_seed, has_spare, spare, heap, released, bad_free, first_normal,
          tracked, entries, transitions, terminals, var_uses, work>>

---------------------------------------------------------------------------
(* Bounds of the model *)

MaxLimit == 3   \* tracking limits 1..MaxLimit
MaxCap == 2     \* storage capacities 1..MaxCap
MaxBatch == 2   \* batch sizes -1..MaxBatch
MaxSims == 4    \* simulations in all, over all runs

---------------------------------------------------------------------------
(* double *)

FP == 1000

NaN == -2147483647

NULL == 0

Max(a, b) == IF a >= b THEN a ELSE b

Min(a, b) == IF a <= b THEN a ELSE b

\* a * b on doubles
FMul(a, b) == IF a = NaN \/ b = NaN THEN NaN ELSE (a * b) \div FP

\* a / n with n an int converted to double: 0.0 / 0 is NaN
FDivInt(a, n) == IF a = NaN \/ n = 0 THEN NaN ELSE a \div n

fmax(a, b) == IF a = NaN THEN b ELSE IF b = NaN THEN a ELSE Max(a, b)

\* the largest s in lo..hi with s * s <= n, by bisection
RECURSIVE Root(_, _, _)
Root(lo, hi, n) ==
    IF lo >= hi THEN lo
    ELSE LET mid == (lo + hi + 1) \div 2
         IN  IF mid * mid <= n THEN Root(mid, hi, n) ELSE Root(lo, mid - 1, n)

\* sqrt: the largest s with s * s <= x in fixed point, NaN below zero
sqrt(x) ==
    IF x = NaN \/ x < 0 THEN NaN
    ELSE Root(0, Min(Max(x, FP), 46340), x * FP)

\* exp: 1 + x + x^2/2 + x^3/6, strictly increasing
exp(x) ==
    IF x = NaN THEN NaN
    ELSE Max(1, FP + x + FMul(x, x) \div 2 + FMul(FMul(x, x), x) \div 6)

---------------------------------------------------------------------------
(* Random source *)

RAND_MASK == 2147483647

\* (seed * 1103515245 + 12345) & 0x7fffffff, by 16-bit limbs
\* (1103515245 = 16838 * 65536 + 20077)
LcgNext(seed) ==
    LET s_lo == seed % 65536
        s_hi == seed \div 65536
        t    == s_lo * 20077
        low  == (t % 65536) + 12345
        high == (t \div 65536) + s_hi * 20077 + s_lo * 16838 + (low \div 65536)
    IN  (high % 32768) * 65536 + (low % 65536)

\* simple_random: the new rand_seed and the double returned,
\* (double)rand_seed / 0x7fffffff, kept exact as numerator and denominator
simple_random(seed) ==
    [seed |-> LcgNext(seed), value |-> [num |-> LcgNext(seed), den |-> RAND_MASK]]

\* -2.0 * log(u): by eighths of (0, 1), at the midpoint of each;
\* log(1) = 0 and log(0) = -inf (not finite)
NegTwoLog(u) ==
    IF u.num = 0 THEN NaN
    ELSE IF u.num >= u.den THEN 0
    ELSE <<5545, 3348, 2326, 1653, 1151, 749, 415, 129>>[(u.num \div 268435456) + 1]

\* sin(2.0 * M_PI * v) and cos(2.0 * M_PI * v): by eighths of the circle
SinTwoPi(v) ==
    <<383, 924, 924, 383, -383, -924, -924, -383>>[((v.num \div 268435456) % 8) + 1]

CosTwoPi(v) ==
    <<924, 383, -383, -924, -924, -383, 383, 924>>[((v.num \div 268435456) % 8) + 1]

\* The random source g is rand_seed with the statics of normal_random:
\* [seed, has_spare, spare], and the history field first (first_normal).

\* first_normal after this draw: set by the first draw after a reseed only
NoteFirst(g, how) == IF g.first = "none" THEN how ELSE g.first

\* the Box-Muller pair from mag and the second uniform v: the sine is
\* returned, the cosine kept as the spare
BoxMuller(g, mag, v) ==
    [value |-> FMul(mag, SinTwoPi(v.value)),
     rng   |-> [seed |-> v.seed, has_spare |-> 1,
                spare |-> FMul(mag, CosTwoPi(v.value)),
                first |-> NoteFirst(g, "fresh")]]

\* the draw of a fresh pair, u being the first uniform simple_random returned
FreshPair(g, u) == BoxMuller(g, sqrt(NegTwoLog(u.value)), simple_random(u.seed))

\* normal_random: the value returned and the random source after the call
normal_random(g) ==
    IF g.has_spare = 1
    THEN [value |-> g.spare,
          rng   |-> [g EXCEPT !.has_spare = 0, !.first = NoteFirst(g, "spare")]]
    ELSE FreshPair(g, simple_random(g.seed))

---------------------------------------------------------------------------
(* Path simulator.  p is the parameter record
   [S0, v0, r, theta, kappa, xi, rho, T, K, N]. *)

\* rho * Z_S + sqrt(1 - rho * rho) * normal_random()
Correlate(rho, Z_S, Z_2) == FMul(rho, Z_S) + FMul(sqrt(FP - FMul(rho, rho)), Z_2)

\* The Milstein update of the variance: stored is the stored variance,
\* drift and diffusion the variance the drift and the sqrt read
Milstein(p, dt, Z_v, stored, drift, diffusion) ==
    stored + FMul(FMul(p.kappa, p.theta - drift), dt)
           + FMul(FMul(Z_v, p.xi), sqrt(FMul(diffusion, dt)))
           + FMul(FMul(p.xi, p.xi) \div 4, FMul(FMul(Z_v, Z_v) - FP, dt))

\* The log-Euler update of the price: drift and diffusion are the variance
\* the drift term and the sqrt read
PriceUpdate(p, dt, Z_S, S, drift, diffusion) ==
    FMul(S, exp(FMul(p.r - drift \div 2, dt) + FMul(Z_S, sqrt(FMul(diffusion, dt)))))

\* The variance each term of one step of simulate_single_path reads, given
\* the stored v[i-1]
PathUses(v_im1) ==
    LET v_prev == fmax(v_im1, 0)
    IN  [stored          |-> v_im1,
         var_drift       |-> v_prev,
         var_diffusion   |-> v_prev,
         price_drift     |-> v_im1,
         price_diffusion |-> fmax(v_im1, 0)]

\* mutant of FinalUses: the price drift reads the clamped variance
FinalUsesClampedDrift(v) ==
    [stored          |-> v,
     var_drift       |-> fmax(v, 0),
     var_diffusion   |-> fmax(v, 0),
     price_drift     |-> fmax(v, 0),
     price_diffusion |-> fmax(v, 0)]

\* The variance each term of one step of simulate_final_price reads, given
\* the stored v
FinalUses(v) ==
    LET v_prev    == v
        v_clamped == fmax(v, 0)
    IN  [stored          |-> v,
         var_drift       |-> v_clamped,
         var_diffusion   |-> v_clamped,
         price_drift     |-> v_prev,
         price_diffusion |-> fmax(v_prev, 0)]

\* mutant of StepDraws: one draw per step, used for both shocks
StepDrawsOnce(g) ==
    [Z_S |-> normal_random(g).value, Z_2 |-> normal_random(g).value,
     rng |-> normal_random(g).rng]

\* Z_S with the second draw d2 of the step
TwoDraws(Z_S, d2) == [Z_S |-> Z_S, Z_2 |-> d2.value, rng |-> d2.rng]

\* the second draw of the step, after the first draw d1
SecondDraw(d1) == TwoDraws(d1.value, normal_random(d1.rng))

\* The two normal draws of one step
StepDraws(g) == SecondDraw(normal_random(g))

\* The loop of simulate_single_path: S and v are the arrays filled so far
\* (S[i] of the source is S[i + 1] here); PathStep is the body of the loop
\* for step i, d the draws of the step
RECURSIVE PathLoop(_, _, _, _, _, _)
RECURSIVE PathStep(_, _, _, _, _, _)
PathStep(p, i, S, v, uses, d) ==
    LET dt == FDivInt(p.T, p.N)
        u  == PathUses(v[i])
    IN  PathLoop(p, i + 1,
                 Append(S, PriceUpdate(p, dt, d.Z_S, S[i], u.price_drift, u.price_diffusion)),
                 Append(v, Milstein(p, dt, Correlate(p.rho, d.Z_S, d.Z_2),
                                    u.stored, u.var_drift, u.var_diffusion)),
                 d.rng, Append(uses, u))

PathLoop(p, i, S, v, g, uses) ==
    IF i > p.N THEN [path |-> S, rng |-> g, uses |-> uses]
    ELSE PathStep(p, i, S, v, uses, StepDraws(g))

\* simulate_single_path: the N + 1 prices, the random source afterwards
simulate_single_path(p, g) == PathLoop(p, 1, <<p.S0>>, <<p.v0>>, g, <<>>)

\* The loop of simulate_final_price; FinalStep is the body of the loop for
\* step i, d the draws of the step
RECURSIVE FinalLoop(_, _, _, _, _, _)
RECURSIVE FinalStep(_, _, _, _, _, _)
FinalStep(p, i, S, v, uses, d) ==
    LET dt == FDivInt(p.T, p.N)
        u  == FinalUses(v)
    IN  FinalLoop(p, i + 1,
                  PriceUpdate(p, dt, d.Z_S, S, u.price_drift, u.price_diffusion),
                  Milstein(p, dt, Correlate(p.rho, d.Z_S, d.Z_2),
                           u.stored, u.var_drift, u.var_diffusion),
                  d.rng, Append(uses, u))

FinalLoop(p, i, S, v, g, uses) ==
    IF i > p.N THEN [final_price |-> S, rng |-> g, uses |-> uses]
    ELSE FinalStep(p, i, S, v, uses, StepDraws(g))

\* simulate_final_price: the terminal price, the random source afterwards
simulate_final_price(p, g) == FinalLoop(p, 1, p.S0, p.v0, g, <<>>)

---------------------------------------------------------------------------
(* Black-Scholes reference *)

\* a / b on doubles, b not zero
FDiv(a, b) == (a * FP) \div b

\* log near 1: 2 * (y + y^3 / 3) with y = (x - 1) / (x + 1)
log(x) ==
    LET y == FDiv(x - FP, x + FP)
    IN  2 * (y + FMul(FMul(y, y), y) \div 3)

\* erf(z): sign(z) * sqrt(1 - exp(-(4 / pi) * z * z))
erf(z) ==
    LET e == Min(FP, exp(-FMul(1273, FMul(z, z))))
        a == sqrt(FP - e)
    IN  IF z < 0 THEN -a ELSE a

norm_cdf(x) == (FP + erf(FDiv(x, sqrt(2 * FP)))) \div 2

\* With sigma * sqrt(T) = 0 the division in d1 gives +inf, -inf or (0 / 0)
\* NaN, and norm_cdf of those is 1, 0 or NaN.
black_scholes_call(S0, K, r, T, sigma) ==
    LET num == log(FDiv(S0, K)) + FMul(r + FMul(sigma, sigma) \div 2, T)
        den == FMul(sigma, sqrt(T))
        d1  == FDiv(num, den)
        d2  == d1 - FMul(sigma, sqrt(T))
        Kd  == FMul(K, exp(FMul(-r, T)))
    IN  IF den # 0 THEN FMul(S0, norm_cdf(d1)) - FMul(Kd, norm_cdf(d2))
        ELSE IF num > 0 THEN S0 - Kd
        ELSE IF num < 0 THEN 0
        ELSE NaN

---------------------------------------------------------------------------
(* Heap of path buffers *)

\* malloc: the lowest address that is not live
malloc(h) ==
    CHOOSE a \in 1..(Cardinality(DOMAIN h) + 1) :
        a \notin DOMAIN h /\ \A b \in 1..(a - 1) : b \in DOMAIN h

\* the heap with buffer a holding data
Store(h, a, data) == [b \in DOMAIN h \cup {a} |-> IF b = a THEN data ELSE h[b]]

\* free(a) of a live buffer
free(h, a) == [b \in DOMAIN h \ {a} |-> h[b]]

---------------------------------------------------------------------------
(* Simulation driver.  m is the state of the program:
   [sim, rng, heap] and the history fields
   [released, bad_free, tracked, terminals, uses]. *)

\* all_paths == NULL
NoArray == <<>>

\* static SimulationState sim_state = {0}
ZeroState ==
    [S0 |-> 0, v0 |-> 0, r |-> 0, theta |-> 0, kappa |-> 0, xi |-> 0, rho |-> 0,
     T |-> 0, K |-> 0, N |-> 0,
     simulation_count |-> 0, tracking_phase |-> 0,
     all_paths |-> NoArray, paths_stored |-> 0,
     min_idx |-> 0, p25_idx |-> 0, p50_idx |-> 0, p75_idx |-> 0, max_idx |-> 0,
     total_payoffs |-> 0, current_option_price |-> 0, black_scholes_price |-> 0]

\* the parameters of the run, as passed to the simulators
Params(sim) ==
    [S0 |-> sim.S0, v0 |-> sim.v0, r |-> sim.r, theta |-> sim.theta,
     kappa |-> sim.kappa, xi |-> sim.xi, rho |-> sim.rho, T |-> sim.T,
     K |-> sim.K, N |-> sim.N]

\* mutant of compare_paths: the comparison reversed
compare_paths_descending(a, b) ==
    IF a.final_price > b.final_price THEN -1
    ELSE IF a.final_price < b.final_price THEN 1
    ELSE 0

compare_paths(a, b) ==
    IF a.final_price < b.final_price THEN -1
    ELSE IF a.final_price > b.final_price THEN 1
    ELSE 0

\* mutant of qsort: the terminal prices are put in ascending order, the
\* path pointers stay in their slots
qsort_final_prices(base, n) ==
    LET Before(i, j) ==
            \/ base[i].final_price < base[j].final_price
            \/ base[i].final_price = base[j].final_price /\ i < j
        Rank(i) == 1 + Cardinality({j \in 1..n : Before(j, i)})
    IN  [k \in 1..Len(base) |->
            IF k <= n
            THEN [path |-> base[k].path,
                  final_price |-> base[CHOOSE i \in 1..n : Rank(i) = k].final_price]
            ELSE base[k]]

\* qsort of the first n elements of base: ascending by compare_paths; where
\* it returns 0 the order is the library's, "stable" (insertion order kept)
\* or "reverse" (insertion order reversed)
qsort(base, n) ==
    LET Before(i, j) ==
            \/ compare_paths(base[i], base[j]) < 0
            \/ /\ compare_paths(base[i], base[j]) = 0
               /\ IF qsort_order = "stable" THEN i < j ELSE i > j
        Rank(i) == 1 + Cardinality({j \in 1..n : Before(j, i)})
    IN  [k \in 1..Len(base) |->
            IF k <= n THEN base[CHOOSE i \in 1..n : Rank(i) = k] ELSE base[k]]

\* mutant of InTrackingBranch: neither the phase nor the limit is looked at
InTrackingBranchAlways(sim) == sim.all_paths # NoArray

\* the condition of the tracking branch
InTrackingBranch(sim) ==
    sim.tracking_phase = 1 /\ sim.simulation_count < PERCENTILE_TRACKING_LIMIT

\* if (paths_stored < MAX_PERCENTILE_PATHS): keep the path in the next slot
StorePath(sim, path, final_price) ==
    IF sim.paths_stored < MAX_PERCENTILE_PATHS
    THEN [sim EXCEPT !.all_paths[sim.paths_stored + 1] =
                         [path |-> path, final_price |-> final_price],
                     !.paths_stored = sim.paths_stored + 1]
    ELSE sim

\* fmax(terminal - K, 0.0)
Payoff(terminal, K) == fmax(terminal - K, 0)

\* mutant of AddPayoff: the payoff is counted only while storage has room
AddPayoffWhileRoom(sim, terminal) ==
    IF sim.paths_stored < MAX_PERCENTILE_PATHS
    THEN [sim EXCEPT !.total_payoffs = sim.total_payoffs + Payoff(terminal, sim.K)]
    ELSE sim

\* total_payoffs += payoff
AddPayoff(sim, terminal) ==
    [sim EXCEPT !.total_payoffs = sim.total_payoffs + Payoff(terminal, sim.K)]

\* mutant of ShouldExitTracking: the comparison against the limit itself
ShouldExitTrackingLate(sim) == sim.simulation_count >= PERCENTILE_TRACKING_LIMIT

\* the check that ends the tracking phase, before the count is incremented
ShouldExitTracking(sim) == sim.simulation_count >= PERCENTILE_TRACKING_LIMIT - 1

\* leaving the tracking phase: sort the stored paths, set the five indices
ExitTracking(sim) ==
    [sim EXCEPT !.tracking_phase = 0,
                !.all_paths = qsort(sim.all_paths, sim.paths_stored),
                !.min_idx = 0,
                !.p25_idx = sim.paths_stored \div 4,
                !.p50_idx = sim.paths_stored \div 2,
                !.p75_idx = (3 * sim.paths_stored) \div 4,
                !.max_idx = sim.paths_stored - 1]

\* simulation_count++
Counted(sim) == [sim EXCEPT !.simulation_count = sim.simulation_count + 1]

\* the tracking branch after the path r was simulated into the buffer at
\* address path: sim is sim_state with the path stored and its payoff added
Tracked(m, r, path, sim) ==
    [m EXCEPT !.sim = Counted(IF ShouldExitTracking(sim) THEN ExitTracking(sim) ELSE sim),
              !.rng = r.rng,
              !.heap = Store(m.heap, path, r.path),
              !.tracked = m.tracked + 1,
              !.entries = IF sim.paths_stored > m.sim.paths_stored
                          THEN Append(m.entries, sim.all_paths[sim.paths_stored])
                          ELSE m.entries,
              !.transitions = IF ShouldExitTracking(sim)
                              THEN m.transitions + 1 ELSE m.transitions,
              !.terminals = Append(m.terminals, r.path[m.sim.N + 1]),
              !.uses = r.uses]

\* the tracking branch with the simulated path r in the buffer at path
TrackPath(m, r, path) ==
    Tracked(m, r, path,
            AddPayoff(StorePath(m.sim, path, r.path[m.sim.N + 1]), r.path[m.sim.N + 1]))

\* one iteration of the loop, tracking branch
TrackingIteration(m) ==
    TrackPath(m, simulate_single_path(Params(m.sim), m.rng), malloc(m.heap))

\* the fast branch with the result r of simulate_final_price
FastCounted(m, r) ==
    [m EXCEPT !.sim = Counted(AddPayoff(m.sim, r.final_price)),
              !.rng = r.rng,
              !.terminals = Append(m.terminals, r.final_price),
              !.uses = r.uses]

\* one iteration of the loop, fast branch
FastIteration(m) == FastCounted(m, simulate_final_price(Params(m.sim), m.rng))

\* for (int i = 0; i < batch_size; i++)
RECURSIVE BatchLoop(_, _, _)
BatchLoop(m, i, batch_size) ==
    IF i >= batch_size THEN m
    ELSE BatchLoop(IF InTrackingBranch(m.sim) THEN TrackingIteration(m)
                                              ELSE FastIteration(m),
                   i + 1, batch_size)

\* current_option_price = exp(-r * T) * (total_payoffs / simulation_count)
UpdatePrice(sim) ==
    [sim EXCEPT !.current_option_price =
        FMul(exp(FMul(-sim.r, sim.T)), FDivInt(sim.total_payoffs, sim.simulation_count))]

\* mutant of PriceUpdated: every batch ends with a call of normal_random
PriceUpdatedAfterDraw(m) ==
    [m EXCEPT !.sim = UpdatePrice(m.sim), !.rng = normal_random(m.rng).rng]

\* run_simulation_batch: the state of the program after the call
PriceUpdated(m) == [m EXCEPT !.sim = UpdatePrice(m.sim)]

run_simulation_batch(m, batch_size) == PriceUpdated(BatchLoop(m, 0, batch_size))

\* the clean-up loop of initialize_simulation from slot i on
RECURSIVE FreePaths(_, _, _)
FreePaths(m, i, n) ==
    IF i >= n THEN m
    ELSE LET a == m.sim.all_paths[i + 1].path
         IN  FreePaths(IF a = NULL THEN m
                       ELSE [m EXCEPT !.heap = IF a \in DOMAIN m.heap
                                               THEN free(m.heap, a) ELSE m.heap,
                                      !.bad_free = m.bad_free \/ a \notin DOMAIN m.heap,
                                      !.released = Append(m.released, a)],
                       i + 1, n)

\* mutant of FreeCount: the last stored slot is not freed
FreeCountShort(sim) == sim.paths_stored - 1

\* the slots freed: i < paths_stored
FreeCount(sim) == sim.paths_stored

\* initialize_simulation: the state of the program after the call; time is
\* the value of time(NULL).  Reset is the part after the clean-up, m1 the
\* state the clean-up left
Reset(m, m1, p, time) ==
    [m1 EXCEPT
            !.sim = [m.sim EXCEPT
                !.S0 = p.S0, !.v0 = p.v0, !.r = p.r, !.theta = p.theta,
                !.kappa = p.kappa, !.xi = p.xi, !.rho = p.rho, !.T = p.T,
                !.K = p.K, !.N = p.N,
                !.simulation_count = 0,
                !.tracking_phase = 1,
                !.paths_stored = 0,
                !.total_payoffs = 0,
                !.current_option_price = 0,
                !.all_paths = [k \in 1..MAX_PERCENTILE_PATHS |->
                                  [path |-> NULL, final_price |-> 0]],
                !.black_scholes_price =
                    black_scholes_call(p.S0, p.K, p.r, p.T, sqrt(p.v0))],
            !.rng = [m.rng EXCEPT !.seed = time, !.first = "none"],
            !.tracked = 0,
            !.entries = <<>>,
            !.transitions = 0,
            !.terminals = <<>>,
            !.uses = <<>>]

initialize_simulation(m, p, time) ==
    Reset(m,
          IF m.sim.all_paths # NoArray
          THEN FreePaths([m EXCEPT !.released = <<>>], 0, FreeCount(m.sim))
          ELSE [m EXCEPT !.released = <<>>],
          p, time)

\* mutant of get_percentile_path: the phase is not looked at
get_percentile_path_any_phase(sim, percentile) ==
    IF sim.paths_stored > 0 /\ percentile \in {0, 25, 50, 75, 100}
    THEN LET idx == CASE percentile = 0   -> sim.min_idx
                      [] percentile = 25  -> sim.p25_idx
                      [] percentile = 50  -> sim.p50_idx
                      [] percentile = 75  -> sim.p75_idx
                      [] percentile = 100 -> sim.max_idx
         IN  sim.all_paths[idx + 1].path
    ELSE NULL

\* get_percentile_path: the address returned
get_percentile_path(sim, percentile) ==
    IF sim.tracking_phase = 0 /\ sim.paths_stored > 0
    THEN IF percentile \in {0, 25, 50, 75, 100}
         THEN LET idx == CASE percentile = 0   -> sim.min_idx
                           [] percentile = 25  -> sim.p25_idx
                           [] percentile = 50  -> sim.p50_idx
                           [] percentile = 75  -> sim.p75_idx
                           [] percentile = 100 -> sim.max_idx
              IN  sim.all_paths[idx + 1].path
         ELSE NULL
    ELSE NULL

get_simulation_count(sim) == sim.simulation_count

get_option_price(sim) == sim.current_option_price

get_black_scholes_price(sim) == sim.black_scholes_price

get_time_steps(sim) == sim.N

is_tracking_phase(sim) == sim.tracking_phase

---------------------------------------------------------------------------
(* The program as a state machine: the host calls initialize_simulation and
   run_simulation_batch in any order and reads the accessors in between. *)

\* the parameter sets the host passes
\* (S0 > 0, K > 0, T > 0, N >= 1, v0 >= 0, rho in [-1, 1]); with the second
\* the variance stays 0 and every path ends at the same price
ParamSets ==
    { [S0 |-> 100 * FP, v0 |-> 10, r |-> 50, theta |-> 10, kappa |-> 500,
       xi |-> FP, rho |-> -500, T |-> FP, K |-> 95 * FP, N |-> 3],
      [S0 |-> 100 * FP, v0 |-> 0, r |-> 50, theta |-> 0, kappa |-> 0,
       xi |-> 0, rho |-> 0, T |-> FP, K |-> 100 * FP, N |-> 1] }

\* the values of time(NULL), taken to 31 bits
SeedValues == {230538014, 1793631481}

\* the state of the program as one record
Machine ==
    [sim |-> sim_state,
     rng |-> [seed |-> rand_seed, has_spare |-> has_spare, spare |-> spare,
              first |-> first_normal],
     heap |-> heap, released |-> released, bad_free |-> bad_free,
     tracked |-> tracked, entries |-> entries, transitions |-> transitions,
     terminals |-> terminals, uses |-> var_uses]

\* the program moves to state m
Becomes(m) ==
    /\ sim_state' = m.sim
    /\ rand_seed' = m.rng.seed
    /\ has_spare' = m.rng.has_spare
    /\ spare' = m.rng.spare
    /\ first_normal' = m.rng.first
    /\ heap' = m.heap
    /\ released' = m.released
    /\ bad_free' = m.bad_free
    /\ tracked' = m.tracked
    /\ entries' = m.entries
    /\ transitions' = m.transitions
    /\ terminals' = m.terminals
    /\ var_uses' = m.uses
    /\ UNCHANGED <<PERCENTILE_TRACKING_LIMIT, MAX_PERCENTILE_PATHS, qsort_order>>

Init ==
    /\ PERCENTILE_TRACKING_LIMIT \in 1..MaxLimit
    /\ MAX_PERCENTILE_PATHS \in 1..MaxCap
    /\ qsort_order \in {"stable", "reverse"}
    /\ sim_state = ZeroState
    /\ rand_seed = 0
    /\ has_spare = 0
    /\ spare = 0
    /\ heap = <<>>
    /\ released = <<>>
    /\ bad_free = FALSE
    /\ first_normal = "none"
    /\ tracked = 0
    /\ entries = <<>>
    /\ transitions = 0
    /\ terminals = <<>>
    /\ var_uses = <<>>
    /\ work = 0

Initialize(p, time) ==
    /\ Becomes(initialize_simulation(Machine, p, time))
    /\ work' = work

RunBatch(batch_size) ==
    /\ work + Max(batch_size, 0) <= MaxSims
    /\ Becomes(run_simulation_batch(Machine, batch_size))
    /\ work' = work + Max(batch_size, 0)

Next ==
    \/ \E p \in ParamSets, time \in SeedValues : Initialize(p, time)
    \/ \E batch_size \in -1..MaxBatch : RunBatch(batch_size)

Spec == Init /\ [][Next]_vars

---------------------------------------------------------------------------
(* Properties *)

\* initialize_simulation has been called
Initialized == sim_state.all_paths # NoArray

\* the arguments get_percentile_path is read with
PercentileArgs == {0, 25, 50, 75, 100, -1, 10}

\* what the accessors return, with the trajectory behind each address
Observables ==
    [count    |-> get_simulation_count(sim_state),
     price    |-> get_option_price(sim_state),
     bs       |-> get_black_scholes_price(sim_state),
     steps    |-> get_time_steps(sim_state),
     tracking |-> is_tracking_phase(sim_state),
     paths    |-> [q \in PercentileArgs |->
                     LET a == get_percentile_path(sim_state, q)
                     IN  IF a \in DOMAIN heap THEN <<a, heap[a]>> ELSE <<a>>]]

\* C1: after initialize, between operations, the phase is TRACKING exactly
\* while the simulation count is below the tracking limit
C1_PhaseIffBelowLimit ==
    Initialized =>
        ((is_tracking_phase(sim_state) = 1)
            <=> (get_simulation_count(sim_state) < PERCENTILE_TRACKING_LIMIT))

\* C1 witness: a limit of 3 reached, the phase flipped at that count
C1_Witness ==
    /\ Initialized
    /\ PERCENTILE_TRACKING_LIMIT = 3
    /\ sim_state.simulation_count = 3
    /\ sim_state.tracking_phase = 0

\* C2: a batch of size <= 0 after initialize changes nothing the accessors
\* return
C2_NonPositiveBatchNoOp ==
    [][\A n \in -1..0 : (Initialized /\ RunBatch(n)) => Observables' = Observables]_vars

\* C3: after initialize, while the count is 0 the price estimate is never
\* the result of 0 / 0
C3_ZeroCountGuarded ==
    (Initialized /\ sim_state.simulation_count = 0)
        => get_option_price(sim_state) # NaN

\* the index the percentile p stands for in a sorted cohort of M paths
RankOf(p, M) ==
    CASE p = 0   -> 0
      [] p = 25  -> M \div 4
      [] p = 50  -> M \div 2
      [] p = 75  -> (3 * M) \div 4
      [] p = 100 -> M - 1

\* terminal price of the stored entry at index i (from 0)
Terminal(i) == sim_state.all_paths[i + 1].final_price

\* C4: once the run has left the tracking phase, the five indices are
\* 0, M/4, M/2, 3M/4 and M-1 of the stored count M, all within 0..M-1, the
\* stored entries are in ascending order of terminal price, and so the
\* terminal prices at the five indices ascend
C4_IndicesAndOrder ==
    (Initialized /\ sim_state.tracking_phase = 0) =>
        LET M == sim_state.paths_stored
            idx == <<sim_state.min_idx, sim_state.p25_idx, sim_state.p50_idx,
                     sim_state.p75_idx, sim_state.max_idx>>
        IN  /\ idx = <<0, M \div 4, M \div 2, (3 * M) \div 4, M - 1>>
            /\ \A k \in 1..5 : idx[k] \in 0..(M - 1)
            /\ \A i \in 0..(M - 2) : Terminal(i) <= Terminal(i + 1)
            /\ \A k \in 1..4 : Terminal(idx[k]) <= Terminal(idx[k + 1])

\* C4 witness: two paths stored in descending order of terminal price, and
\* the tracking phase left
C4_Witness ==
    /\ Initialized
    /\ sim_state.tracking_phase = 0
    /\ sim_state.paths_stored = 2
    /\ terminals[1] > terminals[2]

\* C5: get_percentile_path is NULL in the tracking phase, with nothing
\* stored, and for an argument other than 0, 25, 50, 75, 100; otherwise it
\* is the address of a live trajectory of N + 1 prices, the one stored at
\* the rank of the argument
C5_PercentilePathAvailability ==
    \A q \in PercentileArgs :
        LET a == get_percentile_path(sim_state, q)
            M == sim_state.paths_stored
        IN  IF \/ is_tracking_phase(sim_state) = 1
               \/ M = 0
               \/ q \notin {0, 25, 50, 75, 100}
            THEN a = NULL
            ELSE /\ a # NULL
                 /\ a \in DOMAIN heap
                 /\ Len(heap[a]) = sim_state.N + 1
                 /\ RankOf(q, M) \in 0..(M - 1)
                 /\ a = sim_state.all_paths[RankOf(q, M) + 1].path

\* C5 witness: a run re-initialized after its tracking phase ended, now
\* tracking again with a path stored and the old max_idx beyond it
C5_Witness ==
    /\ released # <<>>
    /\ sim_state.tracking_phase = 1
    /\ sim_state.paths_stored = 1
    /\ sim_state.max_idx >= 1

\* sum of the payoffs max(t - K, 0) of the terminal prices ts[1..n]
RECURSIVE PayoffSum(_, _, _)
PayoffSum(ts, n, K) ==
    IF n = 0 THEN 0 ELSE PayoffSum(ts, n - 1, K) + Max(ts[n] - K, 0)

\* C6: the stored count is at most the capacity and is the lesser of the
\* tracking-branch iterations and the capacity; every iteration adds one
\* payoff and one to the count, so a batch of n > 0 (the step that raises
\* work by n) raises the count by n
C6_StoreCappedPayoffsCounted ==
    [][/\ work' > work =>
              /\ sim_state'.simulation_count = sim_state.simulation_count + (work' - work)
              /\ Len(terminals') = Len(terminals) + (work' - work)
       /\ sim_state'.paths_stored <= MAX_PERCENTILE_PATHS'
       /\ sim_state'.paths_stored = Min(tracked', MAX_PERCENTILE_PATHS')
       /\ Len(terminals') = sim_state'.simulation_count
       /\ sim_state'.total_payoffs
              = PayoffSum(terminals', Len(terminals'), sim_state'.K)]_vars

\* C6 witness: a limit above the capacity, tracking iterations whose path
\* was not stored, fast iterations after them, and payoffs counted
C6_Witness ==
    /\ Initialized
    /\ tracked > sim_state.paths_stored
    /\ sim_state.simulation_count > tracked
    /\ \E i \in DOMAIN terminals : i > sim_state.paths_stored /\ terminals[i] > sim_state.K
    /\ \E i \in DOMAIN terminals : terminals[i] < sim_state.K

\* the addresses in slots 0..paths_stored-1 of all_paths, in slot order
StoredPaths == [i \in 1..sim_state.paths_stored |-> sim_state.all_paths[i].path]

\* the elements of a sequence
Range(f) == {f[i] : i \in DOMAIN f}

\* C7: initialize_simulation in any state leaves count 0, phase TRACKING,
\* nothing stored, payoff sum 0 and price 0, and frees the paths in slots
\* 0..paths_stored-1 of the old collection, each live before and freed
\* once, and nothing else (a step is initialize_simulation(p, time) only if
\* it leaves the parameters p and the seed time)
C7_InitializeFreshAndReleases ==
    [][\A p \in ParamSets, time \in SeedValues :
          (Params(sim_state') = p /\ rand_seed' = time /\ Initialize(p, time)) =>
              /\ sim_state'.simulation_count = 0
              /\ sim_state'.tracking_phase = 1
              /\ sim_state'.paths_stored = 0
              /\ sim_state'.total_payoffs = 0
              /\ sim_state'.current_option_price = 0
              /\ released' = StoredPaths
              /\ \A i, j \in DOMAIN released' : i # j => released'[i] # released'[j]
              /\ Range(released') \subseteq DOMAIN heap
              /\ DOMAIN heap' = DOMAIN heap \ Range(released')
              /\ ~bad_free']_vars

\* C7 witness: initialize_simulation has just freed two paths of a run that
\* had sorted them out of their order of allocation
C7_Witness ==
    /\ Len(released) = 2
    /\ released[1] > released[2]
    /\ sim_state.simulation_count = 0
    /\ sim_state.tracking_phase = 1
    /\ sim_state.current_option_price = 0

\* C8: the first normal_random() after a reseed is never a spare cached
\* before it
C8_NoStaleSpareAfterReseed == first_normal # "spare"

\* C8 witness: a run that followed another (whose paths were freed) has
\* made its first draw, from two fresh uniforms
C8_Witness ==
    /\ released # <<>>
    /\ first_normal = "fresh"
    /\ sim_state.simulation_count > 0

\* C9: in every state the number simple_random returns next is in [0, 1)
C9_UniformBelowOne ==
    LET u == simple_random(rand_seed).value
    IN  0 <= u.num /\ u.num < u.den

\* C10: in every step of the last simulated path, the variance drift, the
\* variance diffusion, the price diffusion and the price drift all read the
\* stored variance clamped to zero
C10_EveryUseClamped ==
    \A i \in DOMAIN var_uses :
        LET u == var_uses[i]
            clamped == Max(u.stored, 0)
        IN  /\ u.var_drift = clamped
            /\ u.var_diffusion = clamped
            /\ u.price_diffusion = clamped
            /\ u.price_drift = clamped

\* the stored cohort and the five indices
Cohort ==
    [all_paths |-> sim_state.all_paths, paths_stored |-> sim_state.paths_stored,
     idx |-> <<sim_state.min_idx, sim_state.p25_idx, sim_state.p50_idx,
               sim_state.p75_idx, sim_state.max_idx>>]

\* C11: in a run the tracking phase is left (sort, indices) once: never
\* while the phase is TRACKING, once when it is FAST; and from a state in
\* the FAST phase a run_simulation_batch of any size (a step that raises
\* work, or a batch of size <= 0) leaves the phase FAST and the stored
\* entries, their order, the stored count and the five indices as they were
C11_TransitionOnceFastTerminal ==
    [][/\ sim_state'.all_paths # NoArray =>
              transitions' = IF sim_state'.tracking_phase = 0 THEN 1 ELSE 0
       /\ (Initialized /\ sim_state.tracking_phase = 0) =>
              /\ work' > work =>
                     /\ sim_state'.tracking_phase = 0
                     /\ Cohort' = Cohort
                     /\ transitions' = transitions
              /\ \A n \in -1..0 : RunBatch(n) =>
                     /\ sim_state'.tracking_phase = 0
                     /\ Cohort' = Cohort
                     /\ transitions' = transitions]_vars

\* C11 witness: a run two simulations past its limit of 2, in the FAST
\* phase with the two paths it tracked, sorted out of their order of
\* simulation
C11_Witness ==
    /\ Initialized
    /\ PERCENTILE_TRACKING_LIMIT = 2
    /\ sim_state.simulation_count = 4
    /\ sim_state.tracking_phase = 0
    /\ sim_state.paths_stored = 2
    /\ terminals[1] > terminals[2]
    /\ transitions = 1

\* the random source, as normal_random reads it
Rng ==
    [seed |-> rand_seed, has_spare |-> has_spare, spare |-> spare,
     first |-> first_normal]

\* the random source after k calls of normal_random from g
RECURSIVE Draws(_, _)
Draws(g, k) == IF k = 0 THEN g ELSE Draws(normal_random(g).rng, k - 1)

\* C12: called in the same state with the parameters of the run,
\* simulate_single_path and simulate_final_price both leave the random
\* source where 2N calls of normal_random leave it, read the same variance
\* in each of their N steps, and the last price S[N] of the first is the
\* value the second returns
C12_PathAndFinalPriceAgree ==
    Initialized =>
        LET p == Params(sim_state)
            full == simulate_single_path(p, Rng)
            last == simulate_final_price(p, Rng)
        IN  /\ Len(full.path) = p.N + 1
            /\ full.path[p.N + 1] = last.final_price
            /\ full.rng = last.rng
            /\ full.rng = Draws(Rng, 2 * p.N)
            /\ Len(full.uses) = p.N
            /\ full.uses = last.uses

\* C12 witness: a run of 3 steps that has used both simulators, in a state
\* from which the stored variance of the next path goes below zero and its
\* terminal price is not the initial price
C12_Witness ==
    /\ Initialized
    /\ sim_state.N = 3
    /\ tracked > 0
    /\ sim_state.simulation_count > tracked
    /\ LET full == simulate_single_path(Params(sim_state), Rng)
       IN  /\ \E i \in DOMAIN full.uses : full.uses[i].stored < 0
           /\ full.path[sim_state.N + 1] # sim_state.S0

\* the stored entries, slots 0..paths_stored-1 of all_paths in slot order
StoredEntries == [i \in 1..sim_state.paths_stored |-> sim_state.all_paths[i]]

\* how many times e occurs in the sequence f
Occurrences(f, e) == Cardinality({i \in DOMAIN f : f[i] = e})

\* C13: in every state after initialize, every stored entry has a non-null
\* path, a live trajectory of N + 1 prices, whose last price is the
\* entry's cached terminal price; the stored entries are the entries as
\* they were written, in the order written while the phase is TRACKING and
\* the same multiset of (path, terminal) pairs after the sort
C13_EntryCachesLastSample ==
    Initialized =>
        /\ \A i \in 1..sim_state.paths_stored :
              LET e == sim_state.all_paths[i]
              IN  /\ e.path # NULL
                  /\ e.path \in DOMAIN heap
                  /\ Len(heap[e.path]) = sim_state.N + 1
                  /\ e.final_price = heap[e.path][sim_state.N + 1]
        /\ Len(entries) = sim_state.paths_stored
        /\ sim_state.tracking_phase = 1 => StoredEntries = entries
        /\ \A i \in DOMAIN entries :
              Occurrences(StoredEntries, entries[i]) = Occurrences(entries, entries[i])

\* C13 witness: the sort has exchanged two stored entries with different
\* terminal prices
C13_Witness ==
    /\ Initialized
    /\ sim_state.tracking_phase = 0
    /\ Len(entries) = 2
    /\ StoredEntries = <<entries[2], entries[1]>>
    /\ entries[1].final_price # entries[2].final_price
    /\ entries[1].path # entries[2].path

\* the slots of the stored collection that hold the address a
Owners(a) == {i \in 1..sim_state.paths_stored : sim_state.all_paths[i].path = a}

\* C14: after initialize, every live path buffer is held by exactly one
\* slot of the stored collection
C14_BufferOwnedByOneSlot ==
    Initialized => \A a \in DOMAIN heap : Cardinality(Owners(a)) = 1

\* the state after n calls run_simulation_batch(1) from state m
RECURSIVE OneByOne(_, _)
OneByOne(m, n) ==
    IF n = 0 THEN m ELSE OneByOne(run_simulation_batch(m, 1), n - 1)

\* C15: after initialize, a batch of n > 0 (the step that raises work by n)
\* ends in the state n batches of 1 end in, whole state of the program
\* included, so any two sequences of positive batches with the same sum end
\* in the same state; and no spare is pending when a batch has ended
C15_ChunkingIndependent ==
    [][(Initialized /\ work' > work) =>
           /\ Machine' = OneByOne(Machine, work' - work)
           /\ has_spare' = 0]_vars

\* C15 witness: a run of 3 simulations, made of batches of different sizes,
\* that has left the tracking phase at a limit of 2 and counted payoffs
C15_Witness ==
    /\ Initialized
    /\ sim_state.simulation_count = 3
    /\ PERCENTILE_TRACKING_LIMIT = 2
    /\ sim_state.tracking_phase = 0
    /\ sim_state.paths_stored = 2
    /\ sim_state.total_payoffs > 0
    /\ has_spare = 0
====
